---- MODULE Spec2Model ----
(***************************************************************************)
(* State-machine model of the get-chucked joke API (src/app.py,            *)
(* src/models.py): the users and jokes tables with their uniqueness        *)
(* constraints, the register/login flow, the JWT-guarded joke CRUD         *)
(* handlers and the external fetch with de-duplication.                    *)
(*                                                                         *)
(* The two handlers whose lookup and INSERT are separate statements        *)
(* (register, random_joke) are split in a check step and a commit step so  *)
(* that concurrent requests interleave between them; requests between the  *)
(* two steps are held in `inflight`.                                       *)
(***************************************************************************)
EXTENDS Integers, Sequences, FiniteSets, Bags, TLC

\* ---- bounds of the model ----
MaxUsers == 2        \* rows the users table may hold
MaxJokeId == 2       \* largest primary key the jokes table hands out
MaxInflight == 2     \* requests between their check step and their commit

\* ---- value domains ----
None == "None"       \* Python None / SQL NULL in a string column
NoUser == 0          \* Python None / SQL NULL in an integer column (ids start at 1)
Missing == ""        \* a field absent from the JSON body, or falsy
Unparseable == -1    \* int(identity) raised TypeError / ValueError

Usernames == {"alice", "bob"}
Passwords == {"pw1", "pw2"}
Salts == {1}
Values == {"v1", "v2"}

\* ---- werkzeug.security: salted one-way hash ----
PwIndex(p) == CASE p = "pw1" -> 1 [] p = "pw2" -> 2 [] OTHER -> 0

Digest(salt, p) == salt * 10 + PwIndex(p)

generate_password_hash(p, salt) == [salt |-> salt, digest |-> Digest(salt, p)]

\* a verifier that compares the salt and not the digest
check_password_hash_SaltOnly(h, p) == Digest(h.salt, p) \div 10 = h.digest \div 10

check_password_hash(h, p) == Digest(h.salt, p) = h.digest

\* ---- str(user.id) and int(identity) ----
IntToStr(i) ==
    CASE i = 0 -> "0" [] i = 1 -> "1" [] i = 2 -> "2" [] i = 3 -> "3" [] i = 4 -> "4"
      [] i = 5 -> "5" [] i = 6 -> "6" [] i = 7 -> "7" [] i = 8 -> "8" [] i = 9 -> "9"
      [] OTHER -> "many"

StrToInt(s) ==
    IF \E i \in 0..9 : IntToStr(i) = s
    THEN CHOOSE i \in 0..9 : IntToStr(i) = s
    ELSE Unparseable

\* ---- the third-party joke service (api.chucknorris.io) ----
\* A response of GET {CHUCK_API_BASE}/random as the handler reads it: data.get("id"),
\* data.get("value"), data.get("categories").  The last one carries no id; every
\* one carries a joke text.
UpstreamJokes ==
    { [id |-> "e1", value |-> "v1", categories |-> <<"dev", "food">>],
      [id |-> "e2", value |-> "v2", categories |-> <<>>],
      [id |-> None, value |-> "v1", categories |-> <<>>] }

UpstreamCategories == <<"dev", "food">>

\* requests.get(...) / raise_for_status(): either a RequestException or a response
UpstreamRandom == {[ok |-> FALSE, data |-> [id |-> None, value |-> Missing, categories |-> <<>>]]}
                  \cup {[ok |-> TRUE, data |-> d] : d \in UpstreamJokes}

\* ---- request inputs ----
\* A bearer credential: valid = FALSE is a request without a token or with an
\* expired one (rejected by @jwt_required); valid = TRUE is a signed, unexpired
\* token with subject claim `sub`.
Subjects == {IntToStr(i) : i \in 1..MaxUsers} \cup {"abc"}

Credentials == {[valid |-> FALSE, sub |-> Missing]}
               \cup {[valid |-> TRUE, sub |-> s] : s \in Subjects}

AuthBodies == [username : Usernames \cup {Missing}, password : Passwords \cup {Missing}]

JokeBodies == [value : Values \cup {Missing}]

PathIds == 1..(MaxJokeId + 1)

VARIABLES
    users,       \* table users: records [id, username, password_hash]
    jokes,       \* table jokes: records [id, joke_id, value, category, user_id, origin]
    inflight,    \* bag of requests that passed their lookup and have not yet committed
    registered,  \* history: username -> plaintext password of its successful registration
    deleted,     \* history: ids of the jokes their owner has removed with a DELETE answered 200
    last         \* the request just answered and its response, until the client has it

vars == <<users, jokes, inflight, registered, deleted, last>>

\* ---- rows ----
NoUserRec == [id |-> NoUser, username |-> None, password_hash |-> [salt |-> 0, digest |-> 0]]

NoJoke == [id |-> 0, joke_id |-> None, value |-> Missing, category |-> None,
           user_id |-> NoUser, origin |-> "none"]

\* Rows that may exist before the first request: an external joke stored without
\* an owner (models.py: user_id is nullable, "external jokes are not authored by a
\* local user").
LegacyJokes == { [id |-> 1, joke_id |-> "e1", value |-> "v1", category |-> None,
                  user_id |-> NoUser, origin |-> "legacy"] }

\* db.session.get(User, user_id)
UserById(id) ==
    IF \E u \in users : u.id = id THEN CHOOSE u \in users : u.id = id ELSE NoUserRec

\* a lookup that never finds the row
UserByName_Miss(name) == NoUserRec

\* User.query.filter_by(username=username).first()
UserByName(name) ==
    IF \E u \in users : u.username = name
    THEN CHOOSE u \in users : u.username = name
    ELSE NoUserRec

\* db.session.get(Joke, joke_id) / Joke.query.get(joke_id)
JokeById(id) ==
    IF \E j \in jokes : j.id = id THEN CHOOSE j \in jokes : j.id = id ELSE NoJoke

MaxOf(S) == IF S = {} THEN 0 ELSE CHOOSE m \in S : \A x \in S : x <= m

\* INTEGER PRIMARY KEY of the default SQLite database: largest rowid + 1
NextUserId == MaxOf({u.id : u \in users}) + 1

NextJokeId == MaxOf({j.id : j \in jokes}) + 1

\* a users table without the unique index
UsernameFree_NoIndex(name) == TRUE

\* unique=True on users.username
UsernameFree(name) == ~ \E u \in users : u.username = name

\* a jokes table without the unique constraint
JokeUniqueOk_NoConstraint(joke_id, user_id) == TRUE

\* UniqueConstraint("joke_id", "user_id"): rows with a NULL in either column never collide
JokeUniqueOk(joke_id, user_id) ==
    \/ joke_id = None
    \/ user_id = NoUser
    \/ ~ \E j \in jokes : j.joke_id = joke_id /\ j.user_id = user_id

\* Joke.to_dict (created_at left out: no handler reads or changes it)
to_dict(j) ==
    [id |-> j.id, joke_id |-> j.joke_id, value |-> j.value, category |-> j.category,
     user |-> IF j.user_id # NoUser /\ UserById(j.user_id) # NoUserRec
              THEN UserById(j.user_id).username ELSE None]

\* ---- helpers of create_app ----
\* require_fields: the fields f with `not data.get(f)`, in the order asked
require_fields(data, fields) == SelectSeq(fields, LAMBDA f : data[f] = Missing)

MissingResp(missing) == [error |-> "missing field(s)", fields |-> missing]

\* current_user: the User of the token's subject, NoUserRec where it aborts 401
current_user(cred) ==
    LET user_id == StrToInt(cred.sub)
    IN  IF user_id = Unparseable THEN NoUserRec ELSE UserById(user_id)

\* the repository accesses current_user makes
current_user_log(cred) ==
    IF StrToInt(cred.sub) = Unparseable THEN <<>> ELSE <<"read_users">>

\* get_joke without the ownership test
Visible_AnyOwner(joke, user) == joke # NoJoke

\* get_joke line 126: the caller sees the joke
Visible(joke, user) == joke # NoJoke /\ joke.user_id = user.id

\* an ownership test that does not exempt rows without an owner
MayModify_Strict(joke, user) == joke.user_id = user.id

\* update_joke line 153 / delete_joke line 173: the caller may change the joke
MayModify(joke, user) == ~ (joke.user_id # NoUser /\ joke.user_id # user.id)

\* ---- responses ----
JwtRejected == [msg |-> "Missing Authorization Header"]
Aborted401 == [error |-> "Unauthorized"]
IntegrityError == [error |-> "Internal Server Error"]
JokeNotFound == [error |-> "joke not found"]
NotAuthorised == [error |-> "not authorised"]

NoCred == [valid |-> FALSE, sub |-> Missing]

NoBody == [value |-> Missing]

\* a request: the operation, its bearer credential, the id in its path, its JSON
\* body (for GET /random past its lookup: the row it is about to insert)
Req(op, cred, jid, data) == [op |-> op, cred |-> cred, jid |-> jid, data |-> data]

\* the response to `req`; `found` is the joke row the handler looked up (NoJoke
\* if none), `log` the repository and gateway accesses it made, in order
Respond(req, found, status, body, log) ==
    last' = [op |-> req.op, cred |-> req.cred, jid |-> req.jid, data |-> req.data,
             found |-> found, status |-> status, body |-> body, log |-> log]

\* no response on the wire
Idle == [op |-> "none", cred |-> NoCred, jid |-> 0, data |-> NoBody,
         found |-> NoJoke, status |-> 0, body |-> [error |-> "none"], log |-> <<>>]

InflightOf(op) == {r \in BagToSet(inflight) : r.op = op}

InflightCount(op) ==
    LET S == InflightOf(op)
        RECURSIVE Sum(_)
        Sum(T) == IF T = {} THEN 0
                  ELSE LET r == CHOOSE x \in T : TRUE
                       IN  CopiesIn(r, inflight) + Sum(T \ {r})
    IN  Sum(S)

Init ==
    /\ users = {}
    /\ jokes \in SUBSET LegacyJokes
    /\ inflight = EmptyBag
    /\ registered = [u \in Usernames |-> Missing]
    /\ deleted = {}
    /\ last = Idle

\* ---- POST /auth/register ----
\* lines 64-73: validation and the username lookup; a request that passes both
\* goes on to the INSERT of lines 76-79
register(data) ==
    LET req == Req("register", NoCred, 0, data)
        missing == require_fields(data, <<"username", "password">>)
    IN  IF missing # <<>>
        THEN /\ Respond(req, NoJoke, 400, MissingResp(missing), <<>>)
             /\ UNCHANGED <<users, jokes, inflight, registered, deleted>>
        ELSE IF UserByName(data.username) # NoUserRec
        THEN /\ Respond(req, NoJoke, 400, [error |-> "username already exists"],
                        <<"read_users">>)
             /\ UNCHANGED <<users, jokes, inflight, registered, deleted>>
        ELSE /\ BagCardinality(inflight) < MaxInflight
             /\ Cardinality(users) + InflightCount("register") < MaxUsers
             /\ inflight' = inflight (+) SetToBag({req})
             /\ UNCHANGED <<users, jokes, registered, deleted, last>>

\* lines 76-81: set_password, db.session.add, db.session.commit; the unique
\* index on username makes the INSERT of a taken name raise IntegrityError,
\* which no handler catches (500)
register_commit(r, salt) ==
    /\ r \in InflightOf("register")
    /\ inflight' = inflight (-) SetToBag({r})
    /\ IF UsernameFree(r.data.username)
       THEN /\ users' = users \cup
                   {[id |-> NextUserId, username |-> r.data.username,
                     password_hash |-> generate_password_hash(r.data.password, salt)]}
            /\ registered' = [registered EXCEPT ![r.data.username] = r.data.password]
            /\ Respond(r, NoJoke, 201, [message |-> "user created", username |-> r.data.username],
                       <<"read_users", "write_users">>)
       ELSE /\ Respond(r, NoJoke, 500, IntegrityError, <<"read_users", "write_users">>)
            /\ UNCHANGED <<users, registered>>
    /\ UNCHANGED <<jokes, deleted>>

\* ---- POST /auth/login ----
\* a login that tells an unknown username from a wrong password
login_response_Leaky(table, data) ==
    LET missing == require_fields(data, <<"username", "password">>)
        found == {u \in table : u.username = data.username}
        user == IF found # {} THEN CHOOSE u \in found : TRUE ELSE NoUserRec
    IN  IF missing # <<>>
        THEN [status |-> 400, body |-> MissingResp(missing), log |-> <<>>]
        ELSE IF user = NoUserRec
        THEN [status |-> 404, body |-> [error |-> "unknown user"], log |-> <<"read_users">>]
        ELSE IF ~ check_password_hash(user.password_hash, data.password)
        THEN [status |-> 401, body |-> [error |-> "invalid credentials"],
              log |-> <<"read_users">>]
        ELSE [status |-> 200,
              body |-> [access_token |-> [valid |-> TRUE, sub |-> IntToStr(user.id)]],
              log |-> <<"read_users">>]

\* what login answers when the users table holds the rows `table`
login_response(table, data) ==
    LET missing == require_fields(data, <<"username", "password">>)
        found == {u \in table : u.username = data.username}
        user == IF found # {} THEN CHOOSE u \in found : TRUE ELSE NoUserRec
    IN  IF missing # <<>>
        THEN [status |-> 400, body |-> MissingResp(missing), log |-> <<>>]
        ELSE IF user = NoUserRec \/ ~ check_password_hash(user.password_hash, data.password)
        THEN [status |-> 401, body |-> [error |-> "invalid credentials"],
              log |-> <<"read_users">>]
        ELSE [status |-> 200,
              body |-> [access_token |-> [valid |-> TRUE, sub |-> IntToStr(user.id)]],
              log |-> <<"read_users">>]

login(data) ==
    LET req == Req("login", NoCred, 0, data)
        r == login_response(users, data)
    IN  /\ Respond(req, NoJoke, r.status, r.body, r.log)
        /\ UNCHANGED <<users, jokes, inflight, registered, deleted>>

\* ---- GET /jokes ----
\* a listing without the owner filter
OwnedBy_All(user) == jokes

\* line 116: Joke.query.filter_by(user_id=user.id).all()
OwnedBy(user) == {x \in jokes : x.user_id = user.id}

\* line 117: the body of the listing for `user`; the order of the rows is not modelled
list_body(user) == [jokes |-> {to_dict(j) : j \in OwnedBy(user)}]

list_jokes(cred) ==
    LET req == Req("list", cred, 0, NoBody)
        user == current_user(cred)
    IN  /\ IF ~ cred.valid
           THEN Respond(req, NoJoke, 401, JwtRejected, <<>>)
           ELSE IF user = NoUserRec
           THEN Respond(req, NoJoke, 401, Aborted401, current_user_log(cred))
           ELSE Respond(req, NoJoke, 200, list_body(user),
                        current_user_log(cred) \o <<"read_jokes">>)
        /\ UNCHANGED <<users, jokes, inflight, registered, deleted>>

\* ---- GET /jokes/<joke_id> ----
\* what get_joke answers to a token that @jwt_required accepted
get_joke_response(cred, joke_id) ==
    LET user == current_user(cred)
        joke == JokeById(joke_id)
    IN  IF user = NoUserRec
        THEN [found |-> NoJoke, status |-> 401, body |-> Aborted401,
              log |-> current_user_log(cred)]
        ELSE IF ~ Visible(joke, user)
        THEN [found |-> joke, status |-> 404, body |-> JokeNotFound,
              log |-> current_user_log(cred) \o <<"read_jokes">>]
        ELSE [found |-> joke, status |-> 200, body |-> to_dict(joke),
              log |-> current_user_log(cred) \o <<"read_jokes">>]

get_joke(cred, joke_id) ==
    LET req == Req("get", cred, joke_id, NoBody)
        r == get_joke_response(cred, joke_id)
    IN  /\ IF ~ cred.valid
           THEN Respond(req, NoJoke, 401, JwtRejected, <<>>)
           ELSE Respond(req, r.found, r.status, r.body, r.log)
        /\ UNCHANGED <<users, jokes, inflight, registered, deleted>>

\* ---- POST /jokes ----
\* a joke stored without its author
NewJoke_Anonymous(user, data) ==
    [id |-> NextJokeId, joke_id |-> None, value |-> data.value,
     category |-> None, user_id |-> NoUser, origin |-> "post"]

\* line 139: Joke(value=data["value"], user_id=user.id); joke_id and category
\* keep their default None, the INSERT assigns the id
NewJoke(user, data) ==
    [id |-> NextJokeId, joke_id |-> None, value |-> data.value,
     category |-> None, user_id |-> user.id, origin |-> "post"]

create_joke(cred, data) ==
    LET req == Req("create", cred, 0, data)
        missing == require_fields(data, <<"value">>)
        user == current_user(cred)
        joke == NewJoke(user, data)
    IN  /\ IF ~ cred.valid
           THEN Respond(req, NoJoke, 401, JwtRejected, <<>>) /\ UNCHANGED jokes
           ELSE IF missing # <<>>
           THEN Respond(req, NoJoke, 400, MissingResp(missing), <<>>) /\ UNCHANGED jokes
           ELSE IF user = NoUserRec
           THEN Respond(req, NoJoke, 401, Aborted401, current_user_log(cred))
                /\ UNCHANGED jokes
           ELSE /\ NextJokeId + InflightCount("random") <= MaxJokeId
                /\ jokes' = jokes \cup {joke}
                /\ Respond(req, NoJoke, 201, to_dict(joke),
                           current_user_log(cred) \o <<"write_jokes">>)
        /\ UNCHANGED <<users, inflight, registered, deleted>>

\* ---- PUT /jokes/<joke_id> ----
\* an update that also hands the joke to the caller
Updated_TakeOver(joke, user, data) == [joke EXCEPT !.value = data.value, !.user_id = user.id]

\* line 160: joke.value = data["value"]
Updated(joke, user, data) == [joke EXCEPT !.value = data.value]

\* an update that validates the body before it looks the joke up
update_joke_ValidateFirst(cred, joke_id, data) ==
    LET req == Req("update", cred, joke_id, data)
        joke == JokeById(joke_id)
        user == current_user(cred)
        missing == require_fields(data, <<"value">>)
        updated == Updated(joke, user, data)
    IN  /\ IF ~ cred.valid
           THEN Respond(req, NoJoke, 401, JwtRejected, <<>>) /\ UNCHANGED jokes
           ELSE IF missing # <<>>
           THEN Respond(req, joke, 400, MissingResp(missing), <<>>)
                /\ UNCHANGED jokes
           ELSE IF joke = NoJoke
           THEN Respond(req, joke, 404, JokeNotFound, <<"read_jokes">>) /\ UNCHANGED jokes
           ELSE IF user = NoUserRec
           THEN Respond(req, joke, 401, Aborted401,
                        <<"read_jokes">> \o current_user_log(cred))
                /\ UNCHANGED jokes
           ELSE IF ~ MayModify(joke, user)
           THEN Respond(req, joke, 403, NotAuthorised,
                        <<"read_jokes">> \o current_user_log(cred))
                /\ UNCHANGED jokes
           ELSE /\ jokes' = (jokes \ {joke}) \cup {updated}
                /\ Respond(req, joke, 200, to_dict(updated),
                           <<"read_jokes">> \o current_user_log(cred) \o <<"write_jokes">>)
        /\ UNCHANGED <<users, inflight, registered, deleted>>

update_joke(cred, joke_id, data) ==
    LET req == Req("update", cred, joke_id, data)
        joke == JokeById(joke_id)
        user == current_user(cred)
        missing == require_fields(data, <<"value">>)
        updated == Updated(joke, user, data)
    IN  /\ IF ~ cred.valid
           THEN Respond(req, NoJoke, 401, JwtRejected, <<>>) /\ UNCHANGED jokes
           ELSE IF joke = NoJoke
           THEN Respond(req, joke, 404, JokeNotFound, <<"read_jokes">>) /\ UNCHANGED jokes
           ELSE IF user = NoUserRec
           THEN Respond(req, joke, 401, Aborted401,
                        <<"read_jokes">> \o current_user_log(cred))
                /\ UNCHANGED jokes
           ELSE IF ~ MayModify(joke, user)
           THEN Respond(req, joke, 403, NotAuthorised,
                        <<"read_jokes">> \o current_user_log(cred))
                /\ UNCHANGED jokes
           ELSE IF missing # <<>>
           THEN Respond(req, joke, 400, MissingResp(missing),
                        <<"read_jokes">> \o current_user_log(cred))
                /\ UNCHANGED jokes
           ELSE /\ jokes' = (jokes \ {joke}) \cup {updated}
                /\ Respond(req, joke, 200, to_dict(updated),
                           <<"read_jokes">> \o current_user_log(cred) \o <<"write_jokes">>)
        /\ UNCHANGED <<users, inflight, registered, deleted>>

\* ---- DELETE /jokes/<joke_id> ----
\* line 176: db.session.delete(joke) followed by the commit
AfterDelete(joke) == jokes \ {joke}

\* a delete that removes the row before it checks the owner
delete_joke_DeleteFirst(cred, joke_id) ==
    LET req == Req("delete", cred, joke_id, NoBody)
        joke == JokeById(joke_id)
        user == current_user(cred)
    IN  /\ IF ~ cred.valid
           THEN Respond(req, NoJoke, 401, JwtRejected, <<>>) /\ UNCHANGED <<jokes, deleted>>
           ELSE IF joke = NoJoke
           THEN Respond(req, joke, 404, JokeNotFound, <<"read_jokes">>) /\ UNCHANGED <<jokes, deleted>>
           ELSE IF user = NoUserRec
           THEN Respond(req, joke, 401, Aborted401,
                        <<"read_jokes">> \o current_user_log(cred))
                /\ UNCHANGED <<jokes, deleted>>
           ELSE IF ~ MayModify(joke, user)
           THEN Respond(req, joke, 403, NotAuthorised,
                        <<"read_jokes">> \o current_user_log(cred))
                /\ jokes' = AfterDelete(joke)
                /\ UNCHANGED deleted
           ELSE /\ jokes' = AfterDelete(joke)
                /\ deleted' = IF joke.user_id = user.id THEN deleted \cup {joke.id} ELSE deleted
                /\ Respond(req, joke, 200, [message |-> "deleted"],
                           <<"read_jokes">> \o current_user_log(cred) \o <<"write_jokes">>)
        /\ UNCHANGED <<users, inflight, registered>>

delete_joke(cred, joke_id) ==
    LET req == Req("delete", cred, joke_id, NoBody)
        joke == JokeById(joke_id)
        user == current_user(cred)
    IN  /\ IF ~ cred.valid
           THEN Respond(req, NoJoke, 401, JwtRejected, <<>>) /\ UNCHANGED <<jokes, deleted>>
           ELSE IF joke = NoJoke
           THEN Respond(req, joke, 404, JokeNotFound, <<"read_jokes">>) /\ UNCHANGED <<jokes, deleted>>
           ELSE IF user = NoUserRec
           THEN Respond(req, joke, 401, Aborted401,
                        <<"read_jokes">> \o current_user_log(cred))
                /\ UNCHANGED <<jokes, deleted>>
           ELSE IF ~ MayModify(joke, user)
           THEN Respond(req, joke, 403, NotAuthorised,
                        <<"read_jokes">> \o current_user_log(cred))
                /\ UNCHANGED <<jokes, deleted>>
           ELSE /\ jokes' = AfterDelete(joke)
                /\ deleted' = IF joke.user_id = user.id THEN deleted \cup {joke.id} ELSE deleted
                /\ Respond(req, joke, 200, [message |-> "deleted"],
                           <<"read_jokes">> \o current_user_log(cred) \o <<"write_jokes">>)
        /\ UNCHANGED <<users, inflight, registered>>

\* ---- GET /categories ----
\* a handler that answers an upstream failure with an empty list
categories_SwallowError(cred, ok) ==
    LET req == Req("categories", cred, 0, NoBody)
    IN  /\ IF ~ cred.valid
           THEN Respond(req, NoJoke, 401, JwtRejected, <<>>)
           ELSE IF ~ ok
           THEN Respond(req, NoJoke, 200, [categories |-> <<>>], <<"gateway">>)
           ELSE Respond(req, NoJoke, 200, [categories |-> UpstreamCategories], <<"gateway">>)
        /\ UNCHANGED <<users, jokes, inflight, registered, deleted>>

categories(cred, ok) ==
    LET req == Req("categories", cred, 0, NoBody)
    IN  /\ IF ~ cred.valid
           THEN Respond(req, NoJoke, 401, JwtRejected, <<>>)
           ELSE IF ~ ok
           THEN Respond(req, NoJoke, 502, [error |-> "failed to fetch categories"],
                        <<"gateway">>)
           ELSE Respond(req, NoJoke, 200, [categories |-> UpstreamCategories], <<"gateway">>)
        /\ UNCHANGED <<users, jokes, inflight, registered, deleted>>

\* ---- GET /random ----
\* lines 215-216: the first of the upstream's categories, or None
FirstCategory(cats) == IF cats # <<>> THEN Head(cats) ELSE None

\* a lookup by external id that forgets the user_id filter
ExistingFor_AnyUser(external_id, user) == {j \in jokes : j.joke_id = external_id}

\* line 219: Joke.query.filter_by(joke_id=external_id, user_id=user.id); a None
\* external_id is compared with IS NULL
ExistingFor(external_id, user) ==
    {j \in jokes : j.joke_id = external_id /\ j.user_id = user.id}

\* a fetch that overwrites the row it finds with the upstream's text and category
random_joke_Refresh(cred, resp) ==
    LET req == Req("random", cred, 0, NoBody)
        user == current_user(cred)
        data == resp.data
        matches == ExistingFor(data.id, user)
        log == current_user_log(cred) \o <<"gateway">>
    IN  IF ~ cred.valid
        THEN /\ Respond(req, NoJoke, 401, JwtRejected, <<>>)
             /\ UNCHANGED <<users, jokes, inflight, registered, deleted>>
        ELSE IF user = NoUserRec
        THEN /\ Respond(req, NoJoke, 401, Aborted401, current_user_log(cred))
             /\ UNCHANGED <<users, jokes, inflight, registered, deleted>>
        ELSE IF ~ resp.ok
        THEN /\ Respond(req, NoJoke, 502,
                        [error |-> "failed to fetch joke from external API"], log)
             /\ UNCHANGED <<users, jokes, inflight, registered, deleted>>
        ELSE IF matches # {}
        THEN /\ \E existing \in matches :
                    LET fresh == [existing EXCEPT !.value = data.value,
                                                  !.category = FirstCategory(data.categories)]
                    IN  /\ jokes' = (jokes \ {existing}) \cup {fresh}
                        /\ Respond(req, existing, 200, to_dict(fresh),
                                   log \o <<"read_jokes", "write_jokes">>)
             /\ UNCHANGED <<users, inflight, registered, deleted>>
        ELSE /\ BagCardinality(inflight) < MaxInflight
             /\ NextJokeId + InflightCount("random") <= MaxJokeId
             /\ inflight' = inflight (+) SetToBag({[req EXCEPT !.data =
                                [joke_id |-> data.id, value |-> data.value,
                                 category |-> FirstCategory(data.categories),
                                 user_id |-> user.id]]})
             /\ UNCHANGED <<users, jokes, registered, deleted, last>>

\* lines 201-221: authentication, the upstream call and the lookup; a request
\* that finds no row goes on to the INSERT of lines 224-226.  .first() without
\* ORDER BY returns any of the matching rows.
random_joke(cred, resp) ==
    LET req == Req("random", cred, 0, NoBody)
        user == current_user(cred)
        data == resp.data
        matches == ExistingFor(data.id, user)
        log == current_user_log(cred) \o <<"gateway">>
    IN  IF ~ cred.valid
        THEN /\ Respond(req, NoJoke, 401, JwtRejected, <<>>)
             /\ UNCHANGED <<users, jokes, inflight, registered, deleted>>
        ELSE IF user = NoUserRec
        THEN /\ Respond(req, NoJoke, 401, Aborted401, current_user_log(cred))
             /\ UNCHANGED <<users, jokes, inflight, registered, deleted>>
        ELSE IF ~ resp.ok
        THEN /\ Respond(req, NoJoke, 502,
                        [error |-> "failed to fetch joke from external API"], log)
             /\ UNCHANGED <<users, jokes, inflight, registered, deleted>>
        ELSE IF matches # {}
        THEN /\ \E existing \in matches :
                    Respond(req, existing, 200, to_dict(existing), log \o <<"read_jokes">>)
             /\ UNCHANGED <<users, jokes, inflight, registered, deleted>>
        ELSE /\ BagCardinality(inflight) < MaxInflight
             /\ NextJokeId + InflightCount("random") <= MaxJokeId
             /\ inflight' = inflight (+) SetToBag({[req EXCEPT !.data =
                                [joke_id |-> data.id, value |-> data.value,
                                 category |-> FirstCategory(data.categories),
                                 user_id |-> user.id]]})
             /\ UNCHANGED <<users, jokes, registered, deleted, last>>

\* lines 224-227: Joke(...), db.session.add, db.session.commit; the unique
\* constraint on (joke_id, user_id) makes the INSERT of a taken pair raise
\* IntegrityError, which no handler catches (500)
random_commit(r) ==
    LET joke == [id |-> NextJokeId, joke_id |-> r.data.joke_id, value |-> r.data.value,
                 category |-> r.data.category, user_id |-> r.data.user_id,
                 origin |-> "random"]
        log == current_user_log(r.cred) \o <<"gateway", "read_jokes", "write_jokes">>
        req == r
    IN  /\ r \in InflightOf("random")
        /\ inflight' = inflight (-) SetToBag({r})
        /\ IF JokeUniqueOk(joke.joke_id, joke.user_id)
           THEN /\ jokes' = jokes \cup {joke}
                /\ Respond(req, NoJoke, 201, to_dict(joke), log)
           ELSE /\ Respond(req, NoJoke, 500, IntegrityError, log)
                /\ UNCHANGED jokes
        /\ UNCHANGED <<users, registered, deleted>>

\* the client receives the response; the server takes its next step
deliver ==
    /\ last # Idle
    /\ last' = Idle
    /\ UNCHANGED <<users, jokes, inflight, registered, deleted>>

\* One response is on the wire at a time: a handler step is taken once the
\* previous response is delivered.  Delivery changes no table, so every order
\* of the handlers' database steps remains possible.
Free == last = Idle

Next ==
    \/ deliver
    \/ \E data \in AuthBodies : Free /\ register(data)
    \/ \E r \in BagToSet(inflight), salt \in Salts : Free /\ register_commit(r, salt)
    \/ \E data \in AuthBodies : Free /\ login(data)
    \/ \E cred \in Credentials : Free /\ list_jokes(cred)
    \/ \E cred \in Credentials, joke_id \in PathIds : Free /\ get_joke(cred, joke_id)
    \/ \E cred \in Credentials, data \in JokeBodies : Free /\ create_joke(cred, data)
    \/ \E cred \in Credentials, joke_id \in PathIds, data \in JokeBodies :
           Free /\ update_joke(cred, joke_id, data)
    \/ \E cred \in Credentials, joke_id \in PathIds : Free /\ delete_joke(cred, joke_id)
    \/ \E cred \in Credentials, ok \in BOOLEAN : Free /\ categories(cred, ok)
    \/ \E cred \in Credentials, resp \in UpstreamRandom : Free /\ random_joke(cred, resp)
    \/ \E r \in BagToSet(inflight) : Free /\ random_commit(r)

Spec == Init /\ [][Next]_vars

\* Requests handled one after the other: a request enters its lookup only when
\* no other request is between its lookup and its commit.
Alone == Free /\ inflight = EmptyBag

SeqNext ==
    \/ deliver
    \/ \E data \in AuthBodies : Alone /\ register(data)
    \/ \E r \in BagToSet(inflight), salt \in Salts : Free /\ register_commit(r, salt)
    \/ \E data \in AuthBodies : Free /\ login(data)
    \/ \E cred \in Credentials : Free /\ list_jokes(cred)
    \/ \E cred \in Credentials, joke_id \in PathIds : Free /\ get_joke(cred, joke_id)
    \/ \E cred \in Credentials, data \in JokeBodies : Free /\ create_joke(cred, data)
    \/ \E cred \in Credentials, joke_id \in PathIds, data \in JokeBodies :
           Free /\ update_joke(cred, joke_id, data)
    \/ \E cred \in Credentials, joke_id \in PathIds : Free /\ delete_joke(cred, joke_id)
    \/ \E cred \in Credentials, ok \in BOOLEAN : Free /\ categories(cred, ok)
    \/ \E cred \in Credentials, resp \in UpstreamRandom : Alone /\ random_joke(cred, resp)
    \/ \E r \in BagToSet(inflight) : Free /\ random_commit(r)

SeqSpec == Init /\ [][SeqNext]_vars

TypeOK ==
    /\ \A u \in users : u.id \in 1..MaxUsers /\ u.username \in Usernames
    /\ \A j \in jokes : j.id \in 1..MaxJokeId
    /\ BagCardinality(inflight) <= MaxInflight

\* ---- vocabulary of the properties ----
ProtectedOps == {"list", "get", "create", "update", "delete", "categories", "random"}

\* the token user b obtains from login
TokenOf(b) == [valid |-> TRUE, sub |-> IntToStr(b.id)]

\* the user the answered request's token resolves to
Caller == current_user(last.cred)

Authenticated == last.cred.valid /\ Caller # NoUserRec

\* GET /random answered from its commit step, for an upstream joke that carries an id
RandomCommitted == last.op = "random" /\ last.data # NoBody /\ last.data.joke_id # None

RowsFor(table, external_id, user_id) ==
    {j \in table : j.joke_id = external_id /\ j.user_id = user_id}

\* ---- C1 ----
\* C1: ownership isolation.  In every reachable state, for every user b and
\* every joke j whose owner is another user, GET /jokes/<j.id> with b's token
\* is answered 404, with the same status and body as b's GET of an id at which
\* no joke exists; and every answered GET of another user's joke is that 404.
C1_OwnershipIsolation ==
    /\ \A b \in users : \A j \in jokes :
           (j.user_id # NoUser /\ j.user_id # b.id) =>
               LET other == get_joke_response(TokenOf(b), j.id)
               IN  /\ other.status = 404
                   /\ \A a \in PathIds :
                          JokeById(a) = NoJoke =>
                              /\ get_joke_response(TokenOf(b), a).status = other.status
                              /\ get_joke_response(TokenOf(b), a).body = other.body
    /\ (/\ last.op = "get"
        /\ Authenticated
        /\ last.found # NoJoke
        /\ last.found.user_id # NoUser
        /\ last.found.user_id # Caller.id)
           => last.status = 404 /\ last.body = JokeNotFound

\* a user has just asked for an existing joke owned by another user
C1_Witness ==
    /\ last.op = "get"
    /\ Authenticated
    /\ last.found \in jokes
    /\ last.found.user_id # NoUser
    /\ last.found.user_id # Caller.id
    /\ last.status = 404

\* ---- C2 ----
\* C2: in every reachable state, for every interleaving of the lookups and
\* inserts of concurrent GET /random requests, two rows of jokes with the same
\* non-null joke_id and the same user_id are the same row.
C2_ExternalIdUniquePerOwner ==
    \A j1 \in jokes : \A j2 \in jokes :
        (j1.joke_id # None /\ j1.joke_id = j2.joke_id /\ j1.user_id = j2.user_id)
            => j1.id = j2.id

\* two requests passed the lookup for the same pair, and the second INSERT was refused
C2_Witness ==
    /\ RandomCommitted
    /\ last.status = 500
    /\ Cardinality(RowsFor(jokes, last.data.joke_id, last.data.user_id)) = 1

\* ---- C3 ----
\* C3: a GET /random that passed its lookup for an upstream joke with an id is
\* answered 200 or 201 with the record now stored for (external id, caller),
\* also when a concurrent request inserted that record first.
C3_SecondWriterRecovers ==
    RandomCommitted =>
        /\ last.status \in {200, 201}
        /\ \E j \in RowsFor(jokes, last.data.joke_id, last.data.user_id) :
               last.body = to_dict(j)

\* ---- C4 ----
\* C4: idempotent external fetch, requests handled one after the other.  Every
\* GET /random of a resolved caller that gets an upstream joke is answered 200
\* or 201; when the joke carries an id e: if a row (e, caller) existed before
\* the answer, the answer is 200 with that row's id and the table is unchanged;
\* if none existed, the answer is 201 and the table gained exactly the row
\* answered; either way exactly one row (e, caller) exists afterwards.
C4_IdempotentFetch ==
    [][ (last = Idle /\ last'.op = "random" /\ last'.status \notin {401, 502}) =>
          /\ last'.status \in {200, 201}
          /\ LET e == last'.body.joke_id
                 u == current_user(last'.cred).id
                 pre == RowsFor(jokes, e, u)
                 post == RowsFor(jokes', e, u)
             IN  e # None =>
                     /\ Cardinality(post) = 1
                     /\ \A j \in post : last'.body.id = j.id
                     /\ pre # {} => (last'.status = 200 /\ jokes' = jokes)
                     /\ pre = {} => (last'.status = 201 /\ jokes' = jokes \cup post)
      ]_vars

\* the repeated call: answered 200 with the row an earlier GET /random stored
C4_Witness ==
    /\ last.op = "random"
    /\ last.status = 200
    /\ last.found \in jokes
    /\ last.found.origin = "random"
    /\ last.found.joke_id # None
    /\ last.body.id = last.found.id

\* ---- C5 ----
\* C5: for a caller whose token resolves to a user, PUT (with a non-empty
\* value) and DELETE of an existing joke without owner are answered 200 and
\* take effect; PUT (with any body) and DELETE of an existing joke whose owner
\* is another user are answered 403 and leave the row as it was.
C5_NullOwnerWritableElseForbidden ==
    (last.op \in {"update", "delete"} /\ Authenticated /\ last.found # NoJoke) =>
        /\ (last.found.user_id = NoUser /\ last.op = "update"
                /\ last.data.value # Missing) =>
               /\ last.status = 200
               /\ JokeById(last.found.id) = [last.found EXCEPT !.value = last.data.value]
               /\ last.body = to_dict(JokeById(last.found.id))
        /\ (last.found.user_id = NoUser /\ last.op = "delete") =>
               /\ last.status = 200
               /\ JokeById(last.found.id) = NoJoke
        /\ (last.found.user_id # NoUser /\ last.found.user_id # Caller.id) =>
               /\ last.status = 403
               /\ last.body = NotAuthorised
               /\ last.found \in jokes

\* a user has just changed the text of a joke that has no owner
C5_Witness ==
    /\ last.op = "update"
    /\ Authenticated
    /\ last.found.id # 0
    /\ last.found.user_id = NoUser
    /\ last.status = 200
    /\ JokeById(last.found.id).value # last.found.value

\* a user has just been refused the delete of another user's joke
C5_WitnessForbidden ==
    /\ last.op = "delete"
    /\ Authenticated
    /\ last.found \in jokes
    /\ last.found.user_id \notin {NoUser, Caller.id}
    /\ last.status = 403

\* ---- C6 ----
\* a session that authentication rejects: no token or an expired one, or a
\* subject claim that is not parseable as a user id
SessionInvalid(cred) == ~ cred.valid \/ StrToInt(cred.sub) = Unparseable

\* C6: every protected operation answers a request whose session is absent or
\* invalid with 401, having made no repository read or write and no call of
\* the external gateway.
C6_RejectedBeforeAnyAccess ==
    (last.op \in ProtectedOps /\ SessionInvalid(last.cred)) =>
        last.status = 401 /\ last.log = <<>>

\* What does hold of the order of checks: a request without a token or with an
\* expired one is answered 401 by @jwt_required before the handler runs, and
\* 403 is answered only to a caller whose token resolved to a user.
JwtRequiredFirst ==
    /\ (last.op \in ProtectedOps /\ ~ last.cred.valid) =>
           (last.status = 401 /\ last.body = JwtRejected /\ last.log = <<>>)
    /\ last.status = 403 => Authenticated

\* ---- C7 ----
\* C7: every protected operation answers 401 to a signed, unexpired token whose
\* subject is not the id of an existing user, whatever the joke id, the body
\* and the upstream result.
C7_UnknownSubjectRejected ==
    (last.op \in ProtectedOps /\ last.cred.valid /\ Caller = NoUserRec) =>
        last.status = 401

\* ---- C8 ----
\* C8: requests handled one after the other.  Once username u is registered,
\* every answer to a further register of u (username and password present) is
\* 400 "username already exists", the users table is unchanged, and the stored
\* hash still verifies the password of the first registration and no other.
C8_DuplicateUsernameRejected ==
    [][ (/\ last = Idle
         /\ last'.op = "register"
         /\ require_fields(last'.data, <<"username", "password">>) = <<>>
         /\ registered[last'.data.username] # Missing) =>
            /\ last'.status = 400
            /\ last'.body = [error |-> "username already exists"]
            /\ users' = users
            /\ registered' = registered
            /\ \A p \in Passwords :
                   check_password_hash(UserByName(last'.data.username).password_hash, p)
                       <=> p = registered[last'.data.username]
      ]_vars

\* a second register of a taken username, with another password, was refused
C8_Witness ==
    /\ last.op = "register"
    /\ last.status = 400
    /\ last.body = [error |-> "username already exists"]
    /\ last.data.password # registered[last.data.username]

\* ---- C9 ----
\* C9: in every reachable state, for every interleaving of the lookups and
\* inserts of concurrent register requests, two rows of users with the same
\* username are the same row.
C9_UsernameUnique ==
    \A u1 \in users : \A u2 \in users : u1.username = u2.username => u1.id = u2.id

\* two registers of one username passed the lookup, and the second INSERT was refused
C9_Witness ==
    /\ last.op = "register"
    /\ last.status = 500
    /\ Cardinality({u \in users : u.username = last.data.username}) = 1

\* ---- C10 ----
\* C10: password round trip.  For a registered username u, a login with u and
\* a password (both present) is answered 200 with a token whose subject parses
\* to u's id when the password is the one u registered with, and 401 "invalid
\* credentials" for every other password.
C10_PasswordRoundTrip ==
    (/\ last.op = "login"
     /\ require_fields(last.data, <<"username", "password">>) = <<>>
     /\ registered[last.data.username] # Missing) =>
        IF last.data.password = registered[last.data.username]
        THEN /\ last.status = 200
             /\ last.body.access_token.valid
             /\ StrToInt(last.body.access_token.sub) = UserByName(last.data.username).id
             /\ current_user(last.body.access_token) = UserByName(last.data.username)
        ELSE /\ last.status = 401
             /\ last.body = [error |-> "invalid credentials"]

\* a registered user has just been refused with a password that is not theirs
C10_Witness ==
    /\ last.op = "login"
    /\ last.data.username \in Usernames
    /\ registered[last.data.username] \in Passwords
    /\ last.data.password \in Passwords \ {registered[last.data.username]}
    /\ last.status = 401

\* a registered user has just logged in
C10_WitnessOk ==
    /\ last.op = "login"
    /\ last.status = 200
    /\ last.data.password = registered[last.data.username]

\* ---- C11 ----
\* the users table of the run in which username `name` does not exist
WithoutUser(name) == {u \in users : u.username # name}

\* C11: login fails uniformly.  In every reachable state and for every body
\* with a non-empty username, a login that does not succeed is answered with
\* the same status and body as in the run whose users table differs only in
\* not holding that username, the status being 401 when a password is
\* supplied; and no login changes users or jokes.
C11_LoginFailsUniformly ==
    /\ [](\A data \in AuthBodies :
              LET here == login_response(users, data)
                  there == login_response(WithoutUser(data.username), data)
              IN  (data.username # Missing /\ here.status # 200) =>
                      /\ here.status = there.status
                      /\ here.body = there.body
                      /\ data.password # Missing => here.status = 401)
    /\ [][last'.op = "login" => (users' = users /\ jokes' = jokes)]_vars

\* a registered user's login has just failed on the password
C11_Witness ==
    /\ last.op = "login"
    /\ last.data.username \in Usernames
    /\ registered[last.data.username] # Missing
    /\ last.status = 401
    /\ login_response(WithoutUser(last.data.username), last.data).status = 401

\* ---- C12 ----
ErrorOutcomes == {400, 401, 403, 404}

\* C12: no partial failure.  Every step in which a request is answered 400,
\* 401, 403 or 404 leaves the users table and the jokes table as they were,
\* and every step that changes either table is the step of a request answered
\* 200 or 201.
C12_NoPartialFailure ==
    [][/\ (last' # last /\ last'.status \in ErrorOutcomes) =>
              (users' = users /\ jokes' = jokes)
       /\ (users' # users \/ jokes' # jokes) =>
              (last' # last /\ last'.status \in {200, 201})]_vars

\* a PUT with an empty value on a joke the caller may modify was rejected,
\* and the stored value is still another one
C12_Witness ==
    /\ last.op = "update"
    /\ last.status = 400
    /\ last.found \in jokes
    /\ last.found.value # last.data.value

\* a DELETE of another user's joke was refused and the joke is still stored
C12_WitnessForbidden ==
    /\ last.op = "delete"
    /\ last.status = 403
    /\ last.found \in jokes

\* ---- C13 ----
\* the number of upstream calls a request's log records
GatewayCalls(log) == Cardinality({i \in DOMAIN log : log[i] = "gateway"})

\* the step answers 502 after one upstream call and writes no joke
BadGateway ==
    /\ last'.status = 502
    /\ "error" \in DOMAIN last'.body
    /\ GatewayCalls(last'.log) = 1
    /\ \A i \in DOMAIN last'.log : last'.log[i] # "write_jokes"
    /\ jokes' = jokes
    /\ inflight' = inflight

\* C13: for every token of an existing user, every step that is GET
\* /categories or GET /random with a failing upstream call answers 502 after
\* exactly one upstream call, and creates or modifies no joke.
C13_UpstreamFailureIs502 ==
    [][\A cred \in Credentials :
           (cred.valid /\ current_user(cred) # NoUserRec) =>
               /\ (Free /\ categories(cred, FALSE)) => BadGateway
               /\ \A resp \in UpstreamRandom :
                      (~ resp.ok /\ Free /\ random_joke(cred, resp)) => BadGateway]_vars

\* GET /categories of an existing user has met a failing upstream
C13_Witness ==
    /\ last.op = "categories"
    /\ Authenticated
    /\ last.status = 502
    /\ jokes # {}

\* GET /random of an existing user has met a failing upstream
C13_WitnessRandom ==
    /\ last.op = "random"
    /\ Authenticated
    /\ last.status = 502
    /\ jokes # {}

\* ---- C14 ----
\* C14: after a DELETE /jokes/<id> by the owner answered 200, every later GET /jokes/<id>
\* of every user is answered 404 and no listing holds a joke of that id; the
\* delete leaves the users table as it was; and a stored joke that POST /jokes
\* created is in its creator's listing with the creator's name as owner.
C14_DeletedStaysGone ==
    /\ [](/\ \A i \in deleted : \A b \in users :
                 /\ get_joke_response(TokenOf(b), i).status = 404
                 /\ \A d \in list_body(b).jokes : d.id # i
          /\ \A j \in jokes : \A b \in users :
                 (j.origin = "post" /\ j.user_id = b.id) =>
                     \E d \in list_body(b).jokes : d.id = j.id /\ d.user = b.username)
    /\ [][(last' # last /\ last'.op = "delete") => users' = users]_vars

\* ---- C15 ----
\* C15: in every reachable state and for every existing user u, the listing
\* GET /jokes computes for u holds one record for each stored joke whose owner
\* is u and nothing else: no joke of another user and no joke without owner;
\* and every answered GET /jokes of an existing user carries that listing.
C15_ListIsExactlyOwn ==
    /\ \A u \in users :
           LET listed == list_body(u).jokes
           IN  /\ \A j \in jokes : j.user_id = u.id => to_dict(j) \in listed
               /\ \A d \in listed :
                      \E j \in jokes : /\ j.id = d.id
                                       /\ j.user_id = u.id
                                       /\ d = to_dict(j)
                                       /\ d.user = u.username
               /\ Cardinality(listed) = Cardinality({j \in jokes : j.user_id = u.id})
    /\ (last.op = "list" /\ Authenticated) =>
           /\ last.status = 200
           /\ last.body = list_body(Caller)

\* a listing was answered to a user who owns a joke while another user's joke
\* is stored
C15_Witness ==
    /\ last.op = "list"
    /\ last.status = 200
    /\ last.body.jokes # {}
    /\ \E j \in jokes : j.user_id # NoUser /\ j.user_id # Caller.id

\* a listing was answered to a user who owns a joke while a joke without owner
\* is stored
C15_WitnessNoOwner ==
    /\ last.op = "list"
    /\ last.status = 200
    /\ last.body.jokes # {}
    /\ \E j \in jokes : j.user_id = NoUser

\* ---- C16 ----
\* the step adds exactly one joke, whose id no stored joke had
CreatesOne(j) ==
    /\ j \notin jokes
    /\ \A x \in jokes : x.id # j.id
    /\ jokes' = jokes \cup {j}

C16_WitnessMissing ==
    /\ last.op = "create"
    /\ Authenticated
    /\ last.status = 400

\* ---- C17 ----
\* the row of the same id after the step
After(j) == CHOOSE x \in jokes' : x.id = j.id

\* C17: in every step of every operation, a stored joke with an owner either
\* is removed by a DELETE answered 200 or keeps its id, owner, external id and
\* category; and a PUT answered 200 changes nothing but the value of the one
\* joke it names.
C17_OwnerNeverReassigned ==
    [][/\ \A j \in jokes :
              j.user_id # NoUser =>
                  \/ /\ \A x \in jokes' : x.id # j.id
                     /\ last'.op = "delete"
                     /\ last'.status = 200
                     /\ last'.found = j
                  \/ /\ \E x \in jokes' : x.id = j.id
                     /\ After(j).user_id = j.user_id
                     /\ After(j).joke_id = j.joke_id
                     /\ After(j).category = j.category
                     /\ After(j).origin = j.origin
       /\ (last' # last /\ last'.op = "update" /\ last'.status = 200) =>
              /\ last'.found \in jokes
              /\ jokes' = (jokes \ {last'.found}) \cup
                              {[last'.found EXCEPT !.value = last'.data.value]}]_vars

\* the owner has changed the value of a joke fetched from the upstream, which
\* still carries its external id
C17_Witness ==
    /\ last.op = "update"
    /\ last.status = 200
    /\ last.found.user_id = Caller.id
    /\ last.found.joke_id # None
    /\ last.found.value # last.data.value
    /\ \E j \in jokes : /\ j.id = last.found.id
                        /\ j.value = last.data.value
                        /\ j.joke_id = last.found.joke_id

\* a second user has fetched the external id another user already holds
C17_WitnessSecondFetch ==
    /\ last.op = "random"
    /\ last.status = 201
    /\ \E j \in jokes : /\ j.joke_id = last.body.joke_id
                        /\ j.user_id # NoUser
                        /\ j.user_id # Caller.id

\* ---- C18 ----
\* C18: whenever GET /random has been answered 200, the record it found for
\* the caller and the upstream's external id is still stored exactly as it was
\* found, and the body is that stored record: an edited value is returned and
\* kept, and nothing of the upstream's response has been written.
C18_ExistingReturnedUnchanged ==
    (last.op = "random" /\ last.status = 200) =>
        /\ last.found \in jokes
        /\ last.found.user_id = Caller.id
        /\ last.body = to_dict(last.found)
        /\ \A i \in DOMAIN last.log : last.log[i] # "write_jokes"

\* GET /random has found the caller's record of upstream joke e1, whose text
\* the owner had changed from the upstream's "v1" to "v2"
C18_Witness ==
    /\ last.op = "random"
    /\ last.status = 200
    /\ last.found.joke_id = "e1"
    /\ last.found.origin = "random"
    /\ last.found.value = "v2"
    /\ last.body.value = "v2"

\* ---- C19 ----
\* C19: every stored joke that GET /random created has an external id, every
\* stored joke that POST /jokes created has none, and GET /random is never
\* answered 200 with a joke that POST /jokes created.
C19_ExternalIdTellsOrigin ==
    /\ \A j \in jokes : j.origin = "random" => j.joke_id # None
    /\ \A j \in jokes : j.origin = "post" => j.joke_id = None
    /\ (last.op = "random" /\ last.status = 200) => last.found.origin # "post"

\* ---- C20 ----
\* the joke the answered request named belongs to a user other than the caller
OthersJoke ==
    /\ last.found # NoJoke
    /\ last.found.user_id # NoUser
    /\ last.found.user_id # Caller.id

\* C20: for every answered PUT or DELETE /jokes/<id> with a token of an
\* existing user: an id at which no joke is stored is answered 404 and another
\* user's joke is answered 403, with or without a value in the body; 400 is
\* answered only by PUT, only for a missing or empty value, and only when the
\* joke is stored and is the caller's or has no owner.
C20_CheckOrder ==
    (last.op \in {"update", "delete"} /\ Authenticated) =>
        /\ last.status # 200 => last.found = JokeById(last.jid)
        /\ last.found = NoJoke => last.status = 404
        /\ OthersJoke => last.status = 403
        /\ last.status = 400 =>
               /\ last.op = "update"
               /\ last.data.value = Missing
               /\ last.found \in jokes
               /\ last.found.user_id \in {Caller.id, NoUser}
        /\ last.status \in {200, 400, 403, 404}

\* a PUT without a value on another user's joke was answered 403
C20_Witness ==
    /\ last.op = "update"
    /\ Authenticated
    /\ last.data.value = Missing
    /\ OthersJoke
    /\ last.status = 403

\* a PUT without a value on an id where no joke is stored was answered 404
C20_WitnessAbsent ==
    /\ last.op = "update"
    /\ Authenticated
    /\ last.data.value = Missing
    /\ JokeById(last.jid) = NoJoke
    /\ last.status = 404

\* a DELETE of another user's joke was answered 403
C20_WitnessDelete ==
    /\ last.op = "delete"
    /\ Authenticated
    /\ OthersJoke
    /\ last.status = 403

\* a PUT without a value on the caller's own joke was answered 400
C20_WitnessOwn ==
    /\ last.op = "update"
    /\ Authenticated
    /\ last.found.user_id = Caller.id
    /\ last.status = 400

====
